---- MODULE Spec2Model ----
(***************************************************************************)
(* Reminder scheduling of the Event-Scheduler backend.                     *)
(*                                                                         *)
(*   src/src/config/agenda.js             the reminder engine (Agenda jobs)*)
(*   src/src/routes/events.js             the res.json hooks of the routes *)
(*   src/src/controllers/eventController.js  create/update/delete event    *)
(*                                                                         *)
(* Time is counted in hours.  The reminder store is the Agenda 'jobs'      *)
(* collection: agenda.schedule() inserts one job document per call,        *)
(* agenda.cancel() deletes every document matching the query, and a job    *)
(* that has run keeps its document with nextRunAt cleared.                 *)
(***************************************************************************)
EXTENDS Integers, Sequences, FiniteSets, Bags, TLC

\* ------------------------------------------------------------------ bounds
MaxDay == 1          \* the clock covers days 0..MaxDay
MaxHour == 1         \* ... and the hours 0..MaxHour of each of them
MaxCalls == 2        \* engine calls (schedule / cancel / reschedule) per run
MaxAttendees == 1    \* attendees of one event
MaxRequests == 2     \* registration requests per run

\* ------------------------------------------------------- program constants
DAY == 24            \* oneDayBefore.setDate(getDate() - 1), in hours
daysToKeep == 90     \* parseInt(EXPIRED_EVENTS_RETENTION_DAYS || '90')
HOUR == 1            \* oneHourBefore.setHours(getHours() - 1)

EventIds == {"e1"}
Users == {"A", "B"}
TzNames == {"UTC", "America/New_York"}   \* moment.tz.names()
TzInputs == TzNames \cup {"Mars/Phobos"}
TimeFrames == {"day", "hour"}

NoTime == -1000                          \* nextRunAt: null
None == "none"

\* the instants the clock visits and the start times requests carry
Instants == {d * DAY + h : d \in 0..MaxDay, h \in 0..MaxHour}

\* events   the Event collection: a function from the stored ids to documents
\* usedIds  the ObjectIds handed out so far (never reused)
\* jobs     the Agenda 'jobs' collection, a bag of job documents
\* calls    the engine calls made so far, in call order, each with its position
\* now      the clock (new Date())
\* started  agenda.start() has resolved: the job processor of the process runs
\* sweptAt  lastRunAt of the 'clean expired events' job (NoTime: it never ran)
VARIABLES events, usedIds, jobs, calls, now, started, sweptAt,
          userDocs, registrations, cache, reply

\* the user collection, the registration requests, the response cache and
\* the last response to a GET
web == <<userDocs, registrations, cache, reply>>

vars == <<events, usedIds, jobs, calls, now, started, sweptAt,
          userDocs, registrations, cache, reply>>

\* -------------------------------------------------------------- sequences
RECURSIVE SeqToSet(_)
SeqToSet(s) == IF s = <<>> THEN {} ELSE {Head(s)} \cup SeqToSet(Tail(s))

RECURSIVE FilterSeq(_, _)
\* Array.prototype.filter with the test "member of keep"
FilterSeq(s, keep) ==
  IF s = <<>> THEN <<>>
  ELSE IF Head(s) \in keep THEN <<Head(s)>> \o FilterSeq(Tail(s), keep)
       ELSE FilterSeq(Tail(s), keep)

RECURSIVE Unique(_)
\* [...new Map(list.map(u => [id, u])).values()]: first position of each id
Unique(s) ==
  IF s = <<>> THEN <<>>
  ELSE <<Head(s)>> \o Unique(FilterSeq(Tail(s), Users \ {Head(s)}))

NoDupSeqs(n) ==
  {s \in UNION {[1..k -> Users] : k \in 0..n} : Cardinality(SeqToSet(s)) = Len(s)}

AttendeeLists == NoDupSeqs(MaxAttendees)

\* User.find({_id: {$in: ids}}): the users in collection order
UserOrder == <<"A", "B">>

\* ------------------------------------------------------------ the job store
NewJob(e, tf, when) ==
  [eventId |-> e, timeFrame |-> tf, nextRunAt |-> when,
   recipients |-> <<>>, delivered |-> <<>>, failed |-> None]

\* agenda.schedule(when, 'send event reminder', {eventId, timeFrame})
AgendaSchedule(J, when, e, tf) == J (+) SetToBag({NewJob(e, tf, when)})

JobsOf(J, e) == {j \in DOMAIN J : j.eventId = e}

\* a cancel whose query matches every document: agenda.cancel({})
AgendaCancelAll(J, e) == EmptyBag

\* a cancel that deletes one matching document (deleteOne) instead of all
AgendaCancelOne(J, e) ==
  IF JobsOf(J, e) = {} THEN J
  ELSE J (-) SetToBag({CHOOSE j \in JobsOf(J, e) : TRUE})

\* agenda.cancel({'data.eventId': eventId})
AgendaCancel(J, e) == [j \in {x \in DOMAIN J : x.eventId # e} |-> J[j]]

CountOf(J, e, tf) ==
  LET S == {j \in JobsOf(J, e) : j.timeFrame = tf}
      RECURSIVE Sum(_)
      Sum(T) == IF T = {} THEN 0
                ELSE LET x == CHOOSE y \in T : TRUE IN J[x] + Sum(T \ {x})
  IN Sum(S)

\* [event.organizer, ...event.attendees] made unique
Participants(ev) == Unique(<<ev.organizer>> \o ev.attendees)

\* --------------------------------------------------------- the engine calls
DayBefore(st) == st - DAY
HourBefore(st) == st - HOUR

\* a comparison that also lets through an offset due exactly now
LaterOrEqual(when, t) == when >= t

\* oneDayBefore > new Date(), oneHourBefore > new Date()
Later(when, t) == when > t

\* a call as it is made.  pc is its position; err tells that a store operation
\* of it was rejected; future is the set of offsets whose due instant was
\* after new Date() when the call compared the two; stored is the set of
\* offsets whose insert has landed; alone tells that no earlier call was still
\* in progress when it was made; participants is who takes part in the event
\* at the time of the call.  pc = "done" says that the promise of the call has
\* fulfilled: the functions have no path on which it rejects
NewCall(op, e, st) ==
  [op |-> op, eventId |-> e, startTime |-> st, pc |-> "start", err |-> FALSE,
   future |-> {}, stored |-> {},
   participants |-> IF e \in DOMAIN events THEN Participants(events[e]) ELSE <<>>,
   alone |-> \A i \in 1..Len(calls) : calls[i].pc = "done"]

\* the call after a comparison of the due instant of offset tf with the clock
Compared(c, tf, when, t) ==
  [c EXCEPT !.future = IF when > t THEN @ \cup {tf} ELSE @]

\* scheduleEventReminders from the hour check on, the clock reading t
HourCheck(c, t) ==
  LET d == Compared(c, "hour", HourBefore(c.startTime), t)
  IN IF Later(HourBefore(c.startTime), t)
     THEN [d EXCEPT !.pc = "hourWrite"]
     ELSE [d EXCEPT !.pc = "done"]

\* scheduleEventReminders up to its first await, the clock reading t
SchedEnter(c, t) ==
  LET d == Compared(c, "day", DayBefore(c.startTime), t)
  IN IF Later(DayBefore(c.startTime), t)
     THEN [d EXCEPT !.pc = "dayWrite"]
     ELSE HourCheck(d, t)

\* cancelEventReminders up to its await
CancelEnter(c) == [c EXCEPT !.pc = "cancelWrite"]

\* what follows the await of agenda.cancel: the end of cancelEventReminders,
\* and for the chain of the update hook the .then(() => scheduleEventReminders)
AfterCancel(c, t) ==
  IF c.op = "cancel" THEN [c EXCEPT !.pc = "done"] ELSE SchedEnter(c, t)

\* scheduleEventReminders(eventId, startTime) called
ScheduleCall(e, st) ==
  /\ Len(calls) < MaxCalls
  /\ calls' = Append(calls, SchedEnter(NewCall("schedule", e, st), now))
  /\ UNCHANGED <<events, usedIds, jobs, now, started, sweptAt, web>>

\* cancelEventReminders(eventId) called
CancelCall(e) ==
  /\ Len(calls) < MaxCalls
  /\ calls' = Append(calls, CancelEnter(NewCall("cancel", e, NoTime)))
  /\ UNCHANGED <<events, usedIds, jobs, now, started, sweptAt, web>>

\* cancelEventReminders(id).then(() => scheduleEventReminders(id, startTime))
RescheduleCall(e, st) ==
  /\ Len(calls) < MaxCalls
  /\ calls' = Append(calls, CancelEnter(NewCall("reschedule", e, st)))
  /\ UNCHANGED <<events, usedIds, jobs, now, started, sweptAt, web>>

\* the insert of the 'day' job lands and the function resumes
DayWriteLands(i) ==
  /\ calls[i].pc = "dayWrite"
  /\ jobs' = AgendaSchedule(jobs, DayBefore(calls[i].startTime),
                            calls[i].eventId, "day")
  /\ calls' = [calls EXCEPT
                 ![i] = HourCheck([@ EXCEPT !.stored = @ \cup {"day"}], now)]
  /\ UNCHANGED <<events, usedIds, now, started, sweptAt, web>>

\* the insert of the 'hour' job lands and the function returns
HourWriteLands(i) ==
  /\ calls[i].pc = "hourWrite"
  /\ jobs' = AgendaSchedule(jobs, HourBefore(calls[i].startTime),
                            calls[i].eventId, "hour")
  /\ calls' = [calls EXCEPT
                 ![i] = [@ EXCEPT !.stored = @ \cup {"hour"}, !.pc = "done"]]
  /\ UNCHANGED <<events, usedIds, now, started, sweptAt, web>>

\* agenda.schedule rejects: the catch block logs and the function returns
WriteFails(i) ==
  /\ calls[i].pc \in {"dayWrite", "hourWrite"}
  /\ calls' = [calls EXCEPT ![i] = [@ EXCEPT !.pc = "done", !.err = TRUE]]
  /\ UNCHANGED <<events, usedIds, jobs, now, started, sweptAt, web>>

\* the deleteMany of agenda.cancel lands
CancelLands(i) ==
  /\ calls[i].pc = "cancelWrite"
  /\ jobs' = AgendaCancel(jobs, calls[i].eventId)
  /\ calls' = [calls EXCEPT ![i] = AfterCancel(@, now)]
  /\ UNCHANGED <<events, usedIds, now, started, sweptAt, web>>

\* agenda.cancel rejects: the catch block logs, the returned promise resolves
CancelFails(i) ==
  /\ calls[i].pc = "cancelWrite"
  /\ calls' = [calls EXCEPT ![i] = AfterCancel([@ EXCEPT !.err = TRUE], now)]
  /\ UNCHANGED <<events, usedIds, jobs, now, started, sweptAt, web>>

\* ------------------------------------------------- 'send event reminder'
RECURSIVE Delivered(_, _)
\* the for loop over the participants: every sendMail that resolved before
\* the first one that rejected
Delivered(rcpts, ok) ==
  IF rcpts = <<>> \/ ~ok[Head(rcpts)] THEN <<>>
  ELSE <<Head(rcpts)>> \o Delivered(Tail(rcpts), ok)

\* the recipient whose sendMail rejected and ended the loop
FailedAt(rcpts, ok) ==
  LET d == Delivered(rcpts, ok)
  IN IF Len(d) = Len(rcpts) THEN None ELSE rcpts[Len(d) + 1]

\* a handler return after which Agenda keeps the job due, as for a repeating
\* job
FinishedStaysDue(j, rcpts, ok) ==
  [j EXCEPT !.recipients = rcpts,
            !.delivered = Delivered(rcpts, ok), !.failed = FailedAt(rcpts, ok)]

\* the job document after the handler has returned: Agenda clears nextRunAt
\* of a one-off job that has run
Finished(j, rcpts, ok) ==
  [j EXCEPT !.nextRunAt = NoTime, !.recipients = rcpts,
            !.delivered = Delivered(rcpts, ok), !.failed = FailedAt(rcpts, ok)]

\* a due test that does not look at the clock
IsPending(j, t) == j.nextRunAt # NoTime

\* a due test that also matches the jobs that have run
IsDueOrRun(j, t) == j.nextRunAt <= t

\* the jobs the job processor picks: nextRunAt is set and not after the clock
IsDue(j, t) == j.nextRunAt # NoTime /\ j.nextRunAt <= t

\* startAgenda(): agenda.start() resolves and the job processor begins to poll
\* the jobs collection every minute.  Nothing in server.js calls it
startAgenda ==
  /\ ~started
  /\ started' = TRUE
  /\ UNCHANGED <<events, usedIds, jobs, calls, now, sweptAt, web>>

\* Agenda runs the handler of one due job; ok is what sendMail answers
RunJob(j, ok) ==
  /\ started
  /\ BagIn(j, jobs)
  /\ IsDue(j, now)
  /\ LET rcpts == IF j.eventId \in DOMAIN events
                  THEN Participants(events[j.eventId]) ELSE <<>>
     IN jobs' = (jobs (-) SetToBag({j})) (+) SetToBag({Finished(j, rcpts, ok)})
  /\ UNCHANGED <<events, usedIds, calls, now, started, sweptAt, web>>

\* the paths of eventSchema an event document of the model carries
EventPaths == {"id", "startTime", "endTime", "timezone", "organizer", "attendees"}

\* the filter {endTime: {$lt: cutoff}, isArchived: false}: a document matches
\* the second condition only if it has the field with the value false
Expired(ev, cutoff) ==
  /\ ev.endTime < cutoff
  /\ "isArchived" \in DOMAIN ev
  /\ ev.isArchived = FALSE

\* {$set: {path: val}} through the model of a strict schema: a path the schema
\* does not declare is dropped from the update
StrictSet(doc, path, val) ==
  IF path \in EventPaths THEN [doc EXCEPT ![path] = val] ELSE doc

\* 'clean expired events', which startAgenda schedules for every midnight
cleanExpiredEvents ==
  /\ started
  /\ now % DAY = 0
  /\ LET cutoffDate == now - daysToKeep * DAY
     IN events' = [e \in DOMAIN events |->
                     IF Expired(events[e], cutoffDate)
                     THEN StrictSet(events[e], "isArchived", TRUE)
                     ELSE events[e]]
  /\ sweptAt' = now
  /\ UNCHANGED <<usedIds, jobs, calls, now, started, web>>

\* time passes
AdvanceClock ==
  /\ \E t \in Instants : t > now /\ now' = t
  /\ UNCHANGED <<events, usedIds, jobs, calls, started, sweptAt, web>>

\* ------------------------------------------------------- the event routes
\* a validation that lets every time zone string through
AnyTimezone(tz) == TRUE

\* moment.tz.names().includes(value), in the validation rules and the schema
ValidTimezone(tz) == tz \in TzNames

\* if (data.success && data.event) of the create and update hooks
HookGuard(data) ==
  /\ "success" \in DOMAIN data
  /\ data.success
  /\ "event" \in DOMAIN data

\* res.json of router.post('/')
PostHook(data) ==
  IF HookGuard(data)
  THEN /\ Len(calls) < MaxCalls
       /\ calls' = Append(calls,
            SchedEnter(NewCall("schedule", data.event.id, data.event.startTime), now))
  ELSE calls' = calls

\* res.json of router.put('/:id'); hasStart is req.body.startTime
PutHook(data, hasStart) ==
  IF HookGuard(data) /\ hasStart
  THEN /\ Len(calls) < MaxCalls
       /\ calls' = Append(calls,
            CancelEnter(NewCall("reschedule", data.event.id, data.event.startTime)))
  ELSE calls' = calls

\* res.json of router.delete('/:id'); id is req.params.id
DeleteHook(data, id) ==
  IF "success" \in DOMAIN data /\ data.success
  THEN /\ Len(calls) < MaxCalls
       /\ calls' = Append(calls, CancelEnter(NewCall("cancel", id, NoTime)))
  ELSE calls' = calls

\* POST /api/events by user u, answered 201 with the saved document; en is
\* the end time, which the schema wants after the start time
createEvent(u, st, en, tz, att) ==
  /\ ValidTimezone(tz)
  /\ en > st
  /\ \E e \in EventIds \ usedIds :
       LET savedEvent == [id |-> e, startTime |-> st, endTime |-> en,
                          timezone |-> tz, organizer |-> u, attendees |-> att]
       IN /\ events' = events @@ (e :> savedEvent)
          /\ usedIds' = usedIds \cup {e}
          /\ PostHook(savedEvent)
  /\ UNCHANGED <<jobs, now, started, sweptAt, web>>

\* the attendees of the updated event: the kept ones, then the new ones
UpdatedAttendees(old, att) ==
  IF att = <<>> THEN old
  ELSE LET valid == FilterSeq(UserOrder, SeqToSet(att))
           fresh == FilterSeq(valid, Users \ SeqToSet(old))
       IN FilterSeq(old \o fresh, SeqToSet(valid))

\* PUT /api/events/:id by user u, answered 200 with the updated document;
\* st = NoTime, en = NoTime, tz = None and att = <<>> stand for a body without
\* that field; save() validates a changed end time against the start time
updateEvent(u, e, st, en, tz, att) ==
  /\ e \in DOMAIN events
  /\ events[e].organizer = u
  /\ tz = None \/ ValidTimezone(tz)
  /\ LET updatedEvent ==
           [events[e] EXCEPT
              !.startTime = IF st # NoTime THEN st ELSE @,
              !.endTime = IF en # NoTime THEN en ELSE @,
              !.timezone = IF tz # None THEN tz ELSE @,
              !.attendees = UpdatedAttendees(@, att)]
     IN /\ updatedEvent.endTime # events[e].endTime
             => updatedEvent.endTime > updatedEvent.startTime
        /\ events' = [events EXCEPT ![e] = updatedEvent]
        /\ PutHook(updatedEvent, st # NoTime)
  /\ UNCHANGED <<usedIds, jobs, now, started, sweptAt, web>>

\* DELETE /api/events/:id by user u, answered 200 with a message
deleteEvent(u, e) ==
  /\ e \in DOMAIN events
  /\ events[e].organizer = u
  /\ events' = [x \in DOMAIN events \ {e} |-> events[x]]
  /\ DeleteHook([message |-> "Event deleted successfully"], e)
  /\ UNCHANGED <<usedIds, jobs, now, started, sweptAt, web>>

\* ------------------------------------------------------ user registration
\* the lowercase setter of userSchema.email, applied to documents and to
\* query filters
Lowercase(m) == IF m = "A@x.io" THEN "a@x.io" ELSE m

\* User.findOne({email})
FindOne(U, m) == BagIn(Lowercase(m), U)

\* a create on a collection whose email path has no unique index
UserCreateNoIndex(U, m) ==
  [docs |-> U (+) SetToBag({Lowercase(m)}), error |-> None]

\* User.create({email, ...}): the unique index on email refuses a second
\* document with the same value (E11000, a MongoServerError)
UserCreate(U, m) ==
  IF BagIn(Lowercase(m), U)
  THEN [docs |-> U, error |-> "MongoServerError"]
  ELSE [docs |-> U (+) SetToBag({Lowercase(m)}), error |-> None]

\* POST /api/users/register arrives with email m
registerUser(m) ==
  /\ Len(registrations) < MaxRequests
  /\ registrations' =
       Append(registrations, [email |-> m, pc |-> "findOne", status |-> 0])
  /\ UNCHANGED <<events, usedIds, jobs, calls, now, started, sweptAt,
                 userDocs, cache, reply>>

\* await User.findOne returns to request i: 409 when a user was found
FindOneReturns(i) ==
  /\ registrations[i].pc = "findOne"
  /\ registrations' =
       [registrations EXCEPT ![i] =
          IF FindOne(userDocs, @.email)
          THEN [@ EXCEPT !.pc = "done", !.status = 409]
          ELSE [@ EXCEPT !.pc = "create"]]
  /\ UNCHANGED <<events, usedIds, jobs, calls, now, started, sweptAt,
                 userDocs, cache, reply>>

\* await User.create returns to request i: 201 with the new user, or the
\* catch block with an error that is no ValidationError, answered 500
CreateReturns(i) ==
  /\ registrations[i].pc = "create"
  /\ LET r == UserCreate(userDocs, registrations[i].email)
     IN /\ userDocs' = r.docs
        /\ registrations' =
             [registrations EXCEPT ![i] =
                [@ EXCEPT !.pc = "done",
                          !.status = IF r.error = None THEN 201 ELSE 500]]
  /\ UNCHANGED <<events, usedIds, jobs, calls, now, started, sweptAt,
                 cache, reply>>

\* ------------------------------------------------------ the response cache
NoReply == [user |-> None, key |-> None, status |-> 0, body |-> [error |-> None]]

\* `__express__${req.originalUrl || req.url}` of GET /api/events/:id
CacheKey(u, e) == e

\* redisClient.get(key): an entry lives less than one step of the clock
CacheHit(key) == key \in DOMAIN cache /\ cache[key].at = now

\* redisClient.setEx(key, duration, JSON.stringify(data))
CacheSet(key, data) == (key :> [data |-> data, at |-> now]) @@ cache

\* the answer of the controller getEventById to user u
getEventById(u, e) ==
  IF e \notin DOMAIN events
  THEN [status |-> 404, body |-> [error |-> "Event not found"]]
  ELSE IF u # events[e].organizer /\ u \notin SeqToSet(events[e].attendees)
  THEN [status |-> 403, body |-> [error |-> "You do not have permission"]]
  ELSE [status |-> 200, body |-> events[e]]

\* GET /api/events/:id by the authenticated user u: cacheMiddleware(60), then
\* getEventById, whose res.json stores the body under the key
cacheMiddleware(u, e) ==
  /\ LET key == CacheKey(u, e)
     IN IF CacheHit(key)
        THEN /\ reply' = [user |-> u, key |-> e, status |-> 200,
                          body |-> cache[key].data]
             /\ UNCHANGED cache
        ELSE LET res == getEventById(u, e)
             IN /\ cache' = CacheSet(key, res.body)
                /\ reply' = [user |-> u, key |-> e, status |-> res.status,
                             body |-> res.body]
  /\ UNCHANGED <<events, usedIds, jobs, calls, now, started, sweptAt,
                 userDocs, registrations>>

\* ---------------------------------------------------------- specifications
Init ==
  /\ events = <<>>
  /\ usedIds = {}
  /\ jobs = EmptyBag
  /\ calls = <<>>
  /\ now = 0
  /\ started = FALSE
  /\ sweptAt = NoTime
  /\ userDocs = EmptyBag
  /\ registrations = <<>>
  /\ cache = <<>>
  /\ reply = NoReply

\* the start times of the calls: an hour, a day, a day and an hour from the
\* start of the clock
StartTimes == {HOUR, DAY, DAY + HOUR}

HttpPost == \E u \in Users, st \in Instants, tz \in TzInputs, att \in AttendeeLists :
              \E en \in {st, st + HOUR} : createEvent(u, st, en, tz, att)
HttpPut == \E u \in Users, e \in EventIds, st \in Instants \cup {NoTime},
              tz \in TzInputs \cup {None}, att \in AttendeeLists :
              \E en \in {NoTime, DAY + MaxHour + HOUR} :
                updateEvent(u, e, st, en, tz, att)
HttpDelete == \E u \in Users, e \in EventIds : deleteEvent(u, e)

\* the requests of organizer A that decide what a reminder job finds: whether
\* the event exists and who takes part in it
Create == \E att \in AttendeeLists :
            createEvent("A", DAY + MaxHour, DAY + MaxHour + HOUR, "UTC", att)
Update == \E e \in EventIds, att \in AttendeeLists :
            updateEvent("A", e, NoTime, NoTime, None, att)
Delete == \E e \in EventIds : deleteEvent("A", e)

Schedule == \E e \in EventIds, st \in StartTimes : ScheduleCall(e, st)
Cancel == \E e \in EventIds : CancelCall(e)
Reschedule == \E e \in EventIds, st \in StartTimes : RescheduleCall(e, st)
StoreStep == \E i \in 1..Len(calls) :
               \/ DayWriteLands(i)
               \/ HourWriteLands(i)
               \/ CancelLands(i)
StoreError == \E i \in 1..Len(calls) : WriteFails(i) \/ CancelFails(i)
Tick == \E j \in DOMAIN jobs, ok \in [Users -> BOOLEAN] : RunJob(j, ok)
Start == startAgenda

\* the routes as the server wires them
NextHttp == HttpPost \/ HttpPut \/ HttpDelete \/ AdvanceClock
SpecHttp == Init /\ [][NextHttp]_vars

\* the scheduler: the exported functions and the update chain called for any
\* event id and start time, the store answering in any order, jobs running
Next ==
  \/ Schedule \/ Cancel \/ Reschedule
  \/ StoreStep \/ StoreError
  \/ Start \/ Tick
  \/ AdvanceClock
Spec == Init /\ [][Next]_vars

\* the dispatcher: events with their participants, reminders scheduled for
\* them, due jobs running with any answer of the mailer
NextDispatch ==
  \/ Create \/ Update \/ Delete
  \/ Schedule
  \/ StoreStep \/ StoreError
  \/ Start \/ Tick
  \/ AdvanceClock
SpecDispatch == Init /\ [][NextDispatch]_vars

\* the scheduler alone: the job processor of the process is not running
NextSchedule ==
  \/ Schedule \/ Cancel \/ Reschedule
  \/ StoreStep \/ StoreError
  \/ AdvanceClock
SpecSchedule == Init /\ [][NextSchedule]_vars

\* scheduleEventReminders(event._id, event.startTime), the call the create
\* hook is written to make
ScheduleEvent == \E e \in DOMAIN events : ScheduleCall(e, events[e].startTime)

\* the reminders of stored events: scheduled with the start time of the event,
\* cancelled, and run by the job processor, the store answering every operation
NextFire ==
  \/ Create
  \/ ScheduleEvent \/ Cancel
  \/ StoreStep
  \/ Start \/ Tick
  \/ AdvanceClock
SpecFire == Init /\ [][NextFire]_vars

\* the same with the job processor, once started, polling for ever and the
\* store answering every operation in the end; nothing obliges anyone to call
\* startAgenda
SpecFireFair ==
  /\ Init /\ [][NextFire]_vars
  /\ WF_vars(Tick)
  /\ WF_vars(StoreStep)

\* events that ended about daysToKeep days ago, and the maintenance job
CreatePast == \E u \in Users, att \in AttendeeLists, d \in {-1, 0, 1} :
                createEvent(u, d - daysToKeep * DAY - HOUR, d - daysToKeep * DAY,
                            "UTC", att)
Sweep == cleanExpiredEvents
NextSweep == CreatePast \/ Delete \/ Start \/ Sweep \/ AdvanceClock
SpecSweep == Init /\ [][NextSweep]_vars

\* events declared in any time zone and their reminders
CreateZoned == \E tz \in TzNames, att \in AttendeeLists :
                 createEvent("A", DAY + MaxHour, DAY + MaxHour + HOUR, tz, att)
NextZoned == CreateZoned \/ ScheduleEvent \/ StoreStep \/ StoreError \/ AdvanceClock
SpecZoned == Init /\ [][NextZoned]_vars

\* the engine called for two event ids, in any interleaving of its store
\* operations
CallIds == EventIds \cup {"e2"}
ScheduleAny == \E e \in CallIds : ScheduleCall(e, DAY + MaxHour)
CancelAny == \E e \in CallIds : CancelCall(e)
RescheduleAny == \E e \in CallIds : RescheduleCall(e, DAY + MaxHour)
NextIsolated == ScheduleAny \/ CancelAny \/ RescheduleAny \/ StoreStep \/ StoreError
SpecIsolated == Init /\ [][NextIsolated]_vars

\* registration requests, two of them in flight at a time
Emails == {"a@x.io", "A@x.io", "b@x.io"}
Register == \E m \in Emails : registerUser(m)
RegisterStep == \E i \in 1..Len(registrations) :
                  FindOneReturns(i) \/ CreateReturns(i)
NextRegister == Register \/ RegisterStep
SpecRegister == Init /\ [][NextRegister]_vars

\* events of any organizer and the GET requests of every user
CreateAny == \E u \in Users, att \in AttendeeLists :
               createEvent(u, DAY + MaxHour, DAY + MaxHour + HOUR, "UTC", att)
Get == \E u \in Users, e \in EventIds : cacheMiddleware(u, e)
NextCache == CreateAny \/ Get \/ AdvanceClock
SpecCache == Init /\ [][NextCache]_vars

\* events that are deleted while their reminder jobs are stored
NextOrphan == Create \/ Delete \/ ScheduleEvent \/ StoreStep \/ Start \/ Tick
                \/ AdvanceClock
SpecOrphan == Init /\ [][NextOrphan]_vars

\* updates that leave the start time of the event as it is, with a working
\* job processor
RescheduleEvent == \E e \in DOMAIN events : RescheduleCall(e, events[e].startTime)
NextRearm == Create \/ RescheduleEvent \/ StoreStep \/ Start \/ Tick
               \/ AdvanceClock
SpecRearm == Init /\ [][NextRearm]_vars

\* ------------------------------------------------------------ properties
\* the calls appended to the call list by the step
NewCalls == {calls'[i] : i \in (Len(calls) + 1)..Len(calls')}

\* C1: every event creation answered 201 invokes schedule for the new event
\* with its start time, so that its future offsets get their reminder records
C1_CreateInvokesSchedule ==
  [][\A e \in EventIds :
       (e \notin DOMAIN events /\ e \in DOMAIN events')
         => \E c \in NewCalls : /\ c.op = "schedule"
                                /\ c.eventId = e
                                /\ c.startTime = events'[e].startTime]_vars

\* C2: every event deletion answered 200 invokes cancel for that event id, so
\* that its reminder records get removed
C2_DeleteInvokesCancel ==
  [][\A e \in EventIds :
       (e \in DOMAIN events /\ e \notin DOMAIN events')
         => \E c \in NewCalls : c.op = "cancel" /\ c.eventId = e]_vars

\* C3: every event update answered 200 that changes startTime, timezone or the
\* participants invokes reschedule with the updated event
C3_UpdateInvokesReschedule ==
  [][\A e \in EventIds :
       (/\ e \in DOMAIN events
        /\ e \in DOMAIN events'
        /\ \/ events'[e].startTime # events[e].startTime
           \/ events'[e].timezone # events[e].timezone
           \/ events'[e].attendees # events[e].attendees)
         => \E c \in NewCalls : /\ c.op = "reschedule"
                                /\ c.eventId = e
                                /\ c.startTime = events'[e].startTime]_vars

\* C4: in every reachable state the store holds at most one reminder record
\* per (eventId, offset kind)
C4_OneRecordPerOffset ==
  \A e \in EventIds, tf \in TimeFrames : CountOf(jobs, e, tf) <= 1

IsSent(j) == j.nextRunAt = NoTime

\* C5: a reminder record is Sent only if the delivery to every one of its
\* recipients succeeded in the tick that handled it
C5_SentOnlyAfterAllDelivered ==
  \A j \in DOMAIN jobs : IsSent(j) => j.failed = None

\* C6: a reminder record whose delivery attempt failed stays unsent and due,
\* so that the following ticks attempt it again
C6_FailedStaysDue ==
  \A j \in DOMAIN jobs : j.failed # None => IsDue(j, now)

\* C7: a record with the two recipients A and B whose delivery to A succeeded
\* and to B failed remains unsent
C7_PartialFailureStaysUnsent ==
  \A j \in DOMAIN jobs :
    (j.delivered = <<"A">> /\ j.failed = "B") => ~IsSent(j)

\* a call of scheduleEventReminders, direct or at the end of the update chain,
\* that has returned without a store error
Scheduled(c) == c.op # "cancel" /\ c.pc = "done" /\ ~c.err

\* C8: schedule stores the record of an offset kind if and only if the due
\* instant of the offset was strictly later than the current time when the
\* call looked at it; an offset due at or before that time is left out
C8_StoresExactlyFutureOffsets ==
  \A i \in 1..Len(calls) :
    Scheduled(calls[i]) =>
      \A tf \in TimeFrames : tf \in calls[i].stored <=> tf \in calls[i].future

\* C8 witness: a schedule call made and finished at the very instant its day
\* offset is due has left that offset out and stored the hour offset
C8_Witness ==
  \E i \in 1..Len(calls) :
    /\ Scheduled(calls[i])
    /\ calls[i].op = "schedule"
    /\ DayBefore(calls[i].startTime) = now
    /\ now = 0
    /\ calls[i].stored = {"hour"}
    /\ CountOf(jobs, calls[i].eventId, "hour") = 1
    /\ CountOf(jobs, calls[i].eventId, "day") = 0

CallsFor(e) == {i \in 1..Len(calls) : calls[i].eventId = e}
Settled(e) == \A i \in CallsFor(e) : calls[i].pc = "done" /\ ~calls[i].err

\* C9: schedule followed by cancel, every store operation of both succeeding,
\* leaves no reminder record of the event, also when the cancel is called
\* while the writes of the schedule call are in progress
C9_ScheduleThenCancelLeavesNone ==
  \A e \in EventIds :
    (/\ Settled(e)
     /\ \E i \in CallsFor(e) : calls[i].op = "schedule"
     /\ \E k \in CallsFor(e) :
          calls[k].op = "cancel" /\ \A i \in CallsFor(e) : i <= k)
      => JobsOf(jobs, e) = {}

\* C10: a schedule (or reschedule) operation performed after an equal one has
\* finished, for the same event snapshot and with the same offsets still in
\* the future, leaves the store as the first one left it: one record for each
\* offset it stored
C10_SecondScheduleChangesNothing ==
  \A e \in EventIds :
    \A i \in CallsFor(e), k \in CallsFor(e) :
      (/\ i < k
       /\ CallsFor(e) = {i, k}
       /\ calls[k].alone
       /\ Scheduled(calls[i]) /\ Scheduled(calls[k])
       /\ calls[i].op = calls[k].op
       /\ calls[i].startTime = calls[k].startTime
       /\ calls[i].future = calls[k].future)
        => \A tf \in TimeFrames :
             CountOf(jobs, e, tf) = IF tf \in calls[i].stored THEN 1 ELSE 0

\* the due instant of the reminder of offset kind tf of an event starting at st
Due(tf, st) == IF tf = "day" THEN DayBefore(st) ELSE HourBefore(st)

\* the records of event e in the store
RecordsOf(J, e) == [j \in JobsOf(J, e) |-> J[j]]

\* the full reminder set of event e for start time st and the offset kinds S:
\* one unsent record for each of them
FullSet(e, st, S) == SetToBag({NewJob(e, tf, Due(tf, st)) : tf \in S})

\* the offset kinds of start time st that are in the future at instant t
FutureAt(st, t) == {tf \in TimeFrames : Due(tf, st) > t}

\* no record of event e in the store has been handled by the job processor
AllUnsent(e) == \A j \in JobsOf(jobs, e) : ~IsSent(j)

\* the step is a run of the job processor on a record of event e
RunsJobOf(e) ==
  /\ calls' = calls
  /\ \E j \in JobsOf(jobs, e) : CopiesIn(j, jobs') < CopiesIn(j, jobs)

\* C11: a tick that runs while a reschedule of an event is in progress finds
\* in the store either the complete set the event had before the reschedule
\* or the complete set the reschedule computes, never an empty, partial or
\* mixed one
C11_TickSeesOldOrNewSet ==
  [][\A e \in EventIds :
       \A i \in CallsFor(e), k \in CallsFor(e) :
         (/\ i < k
          /\ CallsFor(e) = {i, k}
          /\ Scheduled(calls[i])
          /\ calls[k].alone
          /\ calls[k].op = "reschedule"
          /\ calls[k].pc # "done"
          /\ ~calls[k].err
          /\ AllUnsent(e)
          /\ RunsJobOf(e))
           => \/ RecordsOf(jobs, e)
                  = FullSet(e, calls[i].startTime, calls[i].stored)
              \/ \E t \in Instants :
                   /\ t <= now
                   /\ RecordsOf(jobs, e)
                        = FullSet(e, calls[k].startTime,
                                  FutureAt(calls[k].startTime, t))]_vars

\* C12: when a cancel and a reschedule of the same event have both finished,
\* whatever the order in which their store operations landed, the store holds
\* for the event either no record at all or the complete set the reschedule
\* computed, never a part of it
C12_CancelOrCompleteNewSet ==
  \A e \in EventIds :
    \A r \in CallsFor(e), c \in CallsFor(e) :
      (/\ CallsFor(e) = {r, c}
       /\ calls[r].op = "reschedule"
       /\ calls[c].op = "cancel"
       /\ Settled(e)
       /\ AllUnsent(e))
        => \/ RecordsOf(jobs, e) = EmptyBag
           \/ RecordsOf(jobs, e)
               = FullSet(e, calls[r].startTime, calls[r].future)

\* C13: when two reschedules of the same event with different start times that
\* ran concurrently have both finished, the store holds for the event the
\* complete set of exactly one of them, never records of both
C13_LastRescheduleWins ==
  \A e \in EventIds :
    \A i \in CallsFor(e), k \in CallsFor(e) :
      (/\ i < k
       /\ CallsFor(e) = {i, k}
       /\ calls[i].op = "reschedule"
       /\ calls[k].op = "reschedule"
       /\ calls[i].startTime # calls[k].startTime
       /\ ~calls[k].alone
       /\ Settled(e)
       /\ AllUnsent(e))
        => \/ RecordsOf(jobs, e)
               = FullSet(e, calls[i].startTime, calls[i].future)
           \/ RecordsOf(jobs, e)
               = FullSet(e, calls[k].startTime, calls[k].future)

\* C14: a fired reminder goes to the participants the event had when the
\* reminder was scheduled, also when the participants of the event were
\* changed afterwards and no reschedule followed
C14_RecipientsAreSnapshot ==
  \A e \in EventIds :
    \A i \in CallsFor(e) :
      (/\ CallsFor(e) = {i}
       /\ calls[i].op = "schedule"
       /\ calls[i].participants # <<>>
       /\ e \in DOMAIN events)
        => \A j \in JobsOf(jobs, e) :
             IsSent(j) => j.recipients = calls[i].participants

\* C15: a record that has been marked sent stays as it is under every later
\* step: no tick handles it again and nothing turns it back into an unsent
\* record; it only disappears when a cancel deletes the records of its event
C15_SentIsTerminal ==
  [][\A j \in DOMAIN jobs :
       j.nextRunAt = NoTime
         => \/ CopiesIn(j, jobs') >= CopiesIn(j, jobs)
            \/ calls' # calls /\ JobsOf(jobs', j.eventId) = {}]_vars

\* C15 witness: the 'day' reminder of an event was delivered and marked sent,
\* and a later run of the job processor has handled the 'hour' reminder of
\* the event beside it
C15_Witness ==
  \E j \in DOMAIN jobs, k \in DOMAIN jobs :
    /\ j.eventId = k.eventId
    /\ j.timeFrame = "day" /\ k.timeFrame = "hour"
    /\ j.nextRunAt = NoTime /\ k.nextRunAt = NoTime
    /\ j.delivered # <<>>
    /\ k.recipients # <<>>

\* C18: every run of the job processor handles a record that is unsent and
\* whose firing instant is at or before the clock: no delivery is attempted
\* before the firing instant of the record
C18_NoRunBeforeDue ==
  [][\A j \in DOMAIN jobs :
       (calls' = calls /\ CopiesIn(j, jobs') < CopiesIn(j, jobs))
         => j.nextRunAt # NoTime /\ j.nextRunAt <= now]_vars

\* C18 witness: the 'day' reminder of an event was handled once its firing
\* instant had come, while the 'hour' reminder of the event, not yet due, is
\* still unsent
C18_Witness ==
  \E j \in DOMAIN jobs, k \in DOMAIN jobs :
    /\ j.eventId = k.eventId
    /\ j.timeFrame = "day" /\ j.nextRunAt = NoTime /\ j.recipients # <<>>
    /\ k.timeFrame = "hour" /\ k.nextRunAt > now

\* the number of runs of the tf reminder of event e that delivered to user u
Deliveries(e, tf, u) ==
  LET S == {j \in JobsOf(jobs, e) :
              j.timeFrame = tf /\ u \in SeqToSet(j.delivered)}
  IN BagCardinality([j \in S |-> jobs[j]])

\* C16: once a reminder of an event has been handled, every participant it was
\* addressed to has received that reminder of that event exactly once, not
\* zero times and not twice
C16_ExactlyOncePerParticipant ==
  \A e \in EventIds, tf \in TimeFrames, u \in Users :
    (\E j \in JobsOf(jobs, e) :
        j.timeFrame = tf /\ IsSent(j) /\ u \in SeqToSet(j.recipients))
      => Deliveries(e, tf, u) = 1

\* the store holds an unsent tf record of event e whose firing instant has come
DueUnsent(e, tf) ==
  \E j \in JobsOf(jobs, e) :
    j.timeFrame = tf /\ j.nextRunAt # NoTime /\ j.nextRunAt <= now

\* C17: every stored unsent record whose firing instant has passed is in the
\* end handled by a run of the job processor (or removed by a cancel)
C17_DueRecordIsEventuallyAttempted ==
  \A e \in EventIds, tf \in TimeFrames :
    DueUnsent(e, tf) ~> ~DueUnsent(e, tf)

\* C19: a run of the job processor that starts after a cancel of the event has
\* completed, no later call for the event having been made, attempts no
\* delivery for the event
C19_NoDeliveryAfterCancel ==
  [][\A e \in EventIds :
       (/\ \E c \in CallsFor(e) :
             /\ calls[c].op = "cancel"
             /\ calls[c].pc = "done"
             /\ ~calls[c].err
             /\ \A i \in CallsFor(e) : i <= c
        /\ RunsJobOf(e))
         => \A j \in JobsOf(jobs', e) :
              CopiesIn(j, jobs') > CopiesIn(j, jobs) => j.recipients = <<>>]_vars

\* C20: a call of schedule, reschedule or cancel in which a store operation
\* was rejected does not end as a fulfilled promise: the caller gets an error
C20_StoreFailureIsSurfaced ==
  \A i \in 1..Len(calls) : calls[i].pc = "done" => ~calls[i].err

\* C21: a cancel whose delete has been answered ends without an error and
\* leaves no record of the event, whatever the store held; on an event without
\* records (never scheduled, or cancelled before) it leaves the store as it
\* was, so a second cancel changes nothing
C21_CancelIsIdempotent ==
  [][\A i \in 1..Len(calls) :
       (/\ calls[i].op = "cancel"
        /\ calls[i].pc = "cancelWrite"
        /\ calls'[i].pc # "cancelWrite"
        /\ ~calls'[i].err)
         => /\ calls'[i].pc = "done"
            /\ JobsOf(jobs', calls[i].eventId) = {}
            /\ JobsOf(jobs, calls[i].eventId) = {} => jobs' = jobs]_vars

\* C21 witness: two cancels of the same event, the second made after the first
\* had finished, have both ended without an error and the event has no record
C21_Witness ==
  \E i \in 1..Len(calls), k \in 1..Len(calls) :
    /\ i < k
    /\ calls[i].op = "cancel" /\ calls[k].op = "cancel"
    /\ calls[i].eventId = calls[k].eventId
    /\ calls[k].alone
    /\ calls[i].pc = "done" /\ calls[k].pc = "done"
    /\ ~calls[i].err /\ ~calls[k].err
    /\ JobsOf(jobs, calls[i].eventId) = {}

\* the event document is marked archived
IsArchived(ev) == "isArchived" \in DOMAIN ev /\ ev.isArchived

\* C22: when a maintenance sweep has completed, every event whose end time is
\* older than now minus the retention window is marked archived, and the
\* events that ended within the window are as they were
C22_SweepArchivesExpired ==
  [][sweptAt' # sweptAt
       => \A e \in DOMAIN events :
            /\ e \in DOMAIN events'
            /\ events[e].endTime < now - daysToKeep * DAY
                 => IsArchived(events'[e])
            /\ events[e].endTime >= now - daysToKeep * DAY
                 => events'[e] = events[e]]_vars

\* the offset from UTC, in hours, of zone tz at instant t: America/New_York
\* springs forward from UTC-5 to UTC-4 at instant 12 of the clock
UtcOffset(tz, t) ==
  IF tz = "America/New_York" THEN (IF t < 12 THEN -5 ELSE -4) ELSE 0

\* what a clock on the wall in zone tz shows at instant t
WallClock(tz, t) == t + UtcOffset(tz, t)

\* the instant at which zone tz shows the wall-clock time of instant st on the
\* previous calendar day
ZonedDayBefore(tz, st) ==
  CHOOSE t \in (st - DAY - 1)..(st - DAY + 1) :
    WallClock(tz, t) = WallClock(tz, st) - DAY

\* C23: the 'day' record stored for an event by a schedule call with the start
\* time of the event fires at the instant at which the time zone of the event
\* shows the wall-clock time of the start on the previous calendar day
C23_DayBeforeInEventZone ==
  \A e \in DOMAIN events :
    \A i \in CallsFor(e) :
      (/\ calls[i].op = "schedule"
       /\ calls[i].startTime = events[e].startTime
       /\ "day" \in calls[i].stored)
        => \A j \in JobsOf(jobs, e) :
             (j.timeFrame = "day" /\ ~IsSent(j))
               => j.nextRunAt
                   = ZonedDayBefore(events[e].timezone, events[e].startTime)

StepOfCallFor(e) ==
  \/ \E c \in NewCalls : c.eventId = e
  \/ \E i \in 1..Len(calls) : calls'[i] # calls[i] /\ calls[i].eventId = e

\* C25: a step of schedule, reschedule or cancel for one event id leaves the
\* reminder records of every other event id as they were, whatever calls for
\* other ids are in progress
C25_OtherEventsUntouched ==
  [][\A e \in CallIds :
       StepOfCallFor(e)
         => \A j \in DOMAIN jobs \cup DOMAIN jobs' :
              j.eventId # e => CopiesIn(j, jobs') = CopiesIn(j, jobs)]_vars

\* C25 witness: records of e1 are stored, then a cancel for e2 has completed,
\* and the records of e1 are all there
C25_Witness ==
  \E i, k \in 1..Len(calls) :
    /\ i < k
    /\ calls[i].op = "schedule" /\ calls[i].eventId = "e1"
    /\ calls[i].pc = "done" /\ calls[i].stored = TimeFrames
    /\ calls[k].op = "cancel" /\ calls[k].eventId = "e2"
    /\ calls[k].pc = "done" /\ ~calls[k].err
    /\ \A tf \in TimeFrames : CountOf(jobs, "e1", tf) = 1

\* C26: a registration that completes while a user with its email is stored
\* is answered with an error status and stores nothing, and the collection
\* never holds two users with one email, whatever the interleaving of the
\* requests
C26_OneUserPerEmail ==
  [][/\ \A i \in 1..Len(registrations) :
          (/\ registrations[i].pc # "done"
           /\ registrations'[i].pc = "done"
           /\ BagIn(Lowercase(registrations[i].email), userDocs))
            => /\ registrations'[i].status >= 400
               /\ userDocs' = userDocs
     /\ \A m \in Emails : CopiesIn(m, userDocs') <= 1]_vars

\* C26 witness: two requests with the same email both passed the lookup; one
\* was answered 201, the other an error, and one user is stored
C26_Witness ==
  \E i, k \in 1..Len(registrations) :
    /\ Lowercase(registrations[i].email) = Lowercase(registrations[k].email)
    /\ registrations[i].status = 201
    /\ registrations[k].status = 500
    /\ CopiesIn(Lowercase(registrations[i].email), userDocs) = 1

\* the recipients of a handled record to whom a delivery was attempted
Attempted(j) == SeqToSet(j.delivered) \cup ({j.failed} \ {None})

\* C27: the run that handles a record attempts the delivery to every one of
\* its recipients, also to those that follow a recipient whose delivery failed
C27_EveryRecipientIsAttempted ==
  \A j \in DOMAIN jobs :
    IsSent(j) => SeqToSet(j.recipients) \subseteq Attempted(j)

\* the body of the response is the document of an event
IsEventData(body) == "id" \in DOMAIN body

\* C28: a GET of an event by a user who is neither its organizer nor one of
\* its attendees is answered 403 without the event data, whichever requests
\* of other users came before it within the lifetime of a cache entry
C28_DetailsOnlyToParticipants ==
  [][\A e \in DOMAIN events :
       (/\ reply' # reply
        /\ reply'.key = e
        /\ reply'.user \notin SeqToSet(Participants(events[e])))
         => reply'.status = 403 /\ ~IsEventData(reply'.body)]_vars

\* the step is a run of job document j by the job processor, which leaves
\* document k
RunsJob(j, k) ==
  /\ calls' = calls
  /\ CopiesIn(j, jobs') < CopiesIn(j, jobs)
  /\ CopiesIn(k, jobs') > CopiesIn(k, jobs)

\* C29: the run of a reminder job whose event is no longer stored attempts no
\* delivery and leaves the job finished, so that no later tick runs it again
C29_OrphanIsDroppedSilently ==
  [][\A j \in DOMAIN jobs, k \in DOMAIN jobs' :
       (RunsJob(j, k) /\ j.eventId \notin DOMAIN events)
         => /\ Attempted(k) = {}
            /\ \A t \in Instants : ~IsDue(k, t)]_vars

\* C29 witness: the job of a deleted event has run, without recipients
C29_Witness ==
  \E j \in DOMAIN jobs :
    /\ j.eventId \in usedIds \ DOMAIN events
    /\ IsSent(j)
    /\ j.recipients = <<>>

\* the store holds a tf record of event e that has been sent to its recipients
SentRecord(e, tf) ==
  \E j \in JobsOf(jobs, e) :
    j.timeFrame = tf /\ IsSent(j) /\ j.recipients # <<>>

====
